---------------------------- MODULE Spec2Model ----------------------------
(***************************************************************************)
(* Model of src/app.py: the Streamlit dashboard "GRACE Constellation       *)
(* Optimization".  The script is executed top to bottom on every page      *)
(* load and on every widget interaction; the process-wide numpy random     *)
(* generator survives between executions.                                  *)
(*                                                                         *)
(* Numbers.  Floating-point values are modelled two ways:                  *)
(*   - fixed point, an integer counting 1/Scale units (Figures 8, 9, 11),  *)
(*   - exact rationals <<num, den>> (the geoid curves, Figures 10, 12-14). *)
(* The random generator is a counter-based generator: a draw hashes the    *)
(* stream's seed and position and moves the position by one.               *)
(***************************************************************************)
EXTENDS Integers, Sequences, FiniteSets, TLC

VARIABLES
    sidebar,     \* the ten sidebar widgets' values (app.py 12-21)
    run_sim,     \* st.sidebar.button's return value in this execution
    rng,         \* state of the process-wide generator np.random
    pc,          \* position of the running script execution
    figs,        \* figure number -> sequence of artists plotted on its axes
    rendered,    \* charts handed to st.pyplot in this execution, in order
    messages,    \* st.success / st.warning boxes shown in this execution
    calls,       \* log of the generator calls made (arguments, results, rng)
    drawnFrom,   \* figure number -> rng state when its block began (history)
    execs,       \* number of script executions started in this process
    args         \* the arguments the function harness calls the helpers with

vars == <<sidebar, run_sim, rng, pc, figs, rendered, messages, calls,
          drawnFrom, execs, args>>

-----------------------------------------------------------------------------
(* Bounds of the model *)

MaxEntropy == 3     \* number of start-up seeds the model tries
RandRes == 8        \* resolution of a uniform draw: u / RandRes, u in 0..RandRes-1
Scale == 1000       \* fixed-point unit: 1/Scale
MaxCount == 2       \* harness: counts 1..MaxCount (and the default population)
MaxGen == 3         \* harness: generation indexes 1..MaxGen (and the default)
MaxN == 2           \* harness: n in 1..MaxN (and 60)
MaxCalls == 3       \* harness: generator calls per behaviour
MaxPos == 1         \* harness: draws already made from the initial state
MaxExecs == 3       \* script executions per process

-----------------------------------------------------------------------------
(* numpy's global generator.  A state is the seed the stream was started   *)
(* from and the number of raw draws made since: two states are equal only   *)
(* when they are the same point of the same stream.                         *)

\* Seeds the operating system's entropy can give the generator at start-up.
EntropySeeds == 0 .. (MaxEntropy - 1)

\* np.random.seed(k): the state is a function of the seed alone.
Seed(k) == [seed |-> k, pos |-> 0]

\* The state after k draws from state g.
Advance(g, k) == [g EXCEPT !.pos = @ + k]

\* One raw uniform draw in state g, as the numerator u of u / RandRes in [0, 1).
Uniform(g) == (7 * g.seed + 5 * g.pos + 3) % RandRes

\* np.random.rand() in fixed point: a value in [0, Scale).
Rand(g) == (Uniform(g) * Scale) \div RandRes

\* One standard-normal draw in state g, in whole standard deviations.
StdNormal(g) == ((g.seed + 3 * g.pos + 1) % 5) - 2

-----------------------------------------------------------------------------
(* Fixed-point arithmetic *)

RECURSIVE ISqrtSearch(_, _, _)
ISqrtSearch(x, lo, hi) ==
    IF lo >= hi THEN lo
    ELSE LET mid == (lo + hi + 1) \div 2
         IN  IF mid * mid <= x THEN ISqrtSearch(x, mid, hi)
                               ELSE ISqrtSearch(x, lo, mid - 1)

\* gen ** 0.5 in fixed point (floor of sqrt(gen) * Scale).
SqrtFx(gen) == ISqrtSearch(gen * Scale * Scale, 0, (gen + 1) * Scale)

\* Floating-point infinity: above every finite value of the model.
Inf == Scale * Scale * Scale

\* a / b for fixed-point a and b; dividing by 0.0 gives inf.
FxDiv(a, b) == IF b = 0 THEN Inf ELSE (a * Scale) \div b

\* a + b for fixed-point a and b.
FxAdd(a, b) == IF a >= Inf THEN Inf ELSE a + b

\* The constant 0.02 in fixed point.
Offset == (2 * Scale) \div 100

-----------------------------------------------------------------------------
(* Helper functions (app.py 28-37).  The global generator is passed in as g *)
(* and handed back in the result's rng field.                               *)

\* Mutant of random_constellations: multiplies by gen ** 0.5 instead of dividing.
random_constellations_times_root(g, num, gen) ==
    LET root == SqrtFx(gen)
    IN  IF num < 0
        THEN [raised |-> TRUE, Jso |-> <<>>, Jto |-> <<>>, rng |-> g]
        ELSE [raised |-> FALSE,
              Jso |-> [i \in 1..num |->
                         FxAdd((Rand(Advance(g, i - 1)) * root) \div Scale, Offset)],
              Jto |-> [i \in 1..num |->
                         FxAdd((Rand(Advance(g, num + i - 1)) * root) \div Scale, Offset)],
              rng |-> Advance(g, 2 * num)]

\* def random_constellations(num, gen); np.random.rand raises on num < 0.
random_constellations(g, num, gen) ==
    LET root == SqrtFx(gen)
    IN  IF num < 0
        THEN [raised |-> TRUE, Jso |-> <<>>, Jto |-> <<>>, rng |-> g]
        ELSE [raised |-> FALSE,
              Jso |-> [i \in 1..num |->
                         FxAdd(FxDiv(Rand(Advance(g, i - 1)), root), Offset)],
              Jto |-> [i \in 1..num |->
                         FxAdd(FxDiv(Rand(Advance(g, num + i - 1)), root), Offset)],
              rng |-> Advance(g, 2 * num)]

\* Mutant of geoid_error: the signal falls as 1/i instead of 1/i^2.
geoid_error_linear(g, n) ==
    LET seeded == Seed(42)
        z(i) == StdNormal(Advance(seeded, i - 1))
    IN  [signal |-> [i \in 1..n |-> <<1, 10000 * i>>],
         error  |-> [i \in 1..n |-> <<5 + z(i), 50000 * i>>],
         rng    |-> Advance(seeded, n)]

\* Mutant of geoid_error: np.random.seed(42) left out.
geoid_error_unseeded(g, n) ==
    LET z(i) == StdNormal(Advance(g, i - 1))
    IN  [signal |-> [i \in 1..n |-> <<1, 10000 * (i * i)>>],
         error  |-> [i \in 1..n |-> <<5 + z(i), 50000 * (i * i)>>],
         rng    |-> Advance(g, n)]

\* def geoid_error(n): signal and error are sequences of rationals <<num, den>>.
\* signal[i] = 1e-4 / i^2; error[i] = signal[i] + 0.2 * signal[i] * z[i].
geoid_error(g, n) ==
    LET seeded == Seed(42)
        z(i) == StdNormal(Advance(seeded, i - 1))
    IN  [signal |-> [i \in 1..n |-> <<1, 10000 * (i * i)>>],
         error  |-> [i \in 1..n |-> <<5 + z(i), 50000 * (i * i)>>],
         rng    |-> Advance(seeded, n)]

\* An entry of the call log.
Call(fn, actuals, g, result) ==
    [fn |-> fn, args |-> actuals, before |-> g, result |-> result]

-----------------------------------------------------------------------------
(* Sidebar (app.py 12-23) *)

\* Mutant of Sliders: the population slider starts at 0.
Sliders_population_from_zero ==
    [T               |-> [min |-> 1,    max |-> 60,    value |-> 29],
     n_pairs         |-> [min |-> 1,    max |-> 10,    value |-> 6],
     altitude        |-> [min |-> 400,  max |-> 800,   value |-> 500],
     ecc             |-> [min |-> 0,    max |-> 1,     value |-> 0],
     omega           |-> [min |-> 0,    max |-> 180,   value |-> 90],
     r_int           |-> [min |-> 50,   max |-> 300,   value |-> 100],
     spatial_cells   |-> [min |-> 1000, max |-> 10000, value |-> 4551],
     temporal_cells  |-> [min |-> 4,    max |-> 24,    value |-> 16],
     population_size |-> [min |-> 0,    max |-> 200,   value |-> 100],
     generations     |-> [min |-> 5,    max |-> 50,    value |-> 20]]

\* Every widget's minimum, maximum and default.  ecc counts tenths.
Sliders ==
    [T               |-> [min |-> 1,    max |-> 60,    value |-> 29],
     n_pairs         |-> [min |-> 1,    max |-> 10,    value |-> 6],
     altitude        |-> [min |-> 400,  max |-> 800,   value |-> 500],
     ecc             |-> [min |-> 0,    max |-> 1,     value |-> 0],
     omega           |-> [min |-> 0,    max |-> 180,   value |-> 90],
     r_int           |-> [min |-> 50,   max |-> 300,   value |-> 100],
     spatial_cells   |-> [min |-> 1000, max |-> 10000, value |-> 4551],
     temporal_cells  |-> [min |-> 4,    max |-> 24,    value |-> 16],
     population_size |-> [min |-> 10,   max |-> 200,   value |-> 100],
     generations     |-> [min |-> 5,    max |-> 50,    value |-> 20]]

WidgetNames == DOMAIN Sliders

\* The values of widget w the model tries: both ends of its range and its default.
Choices(w) == {Sliders[w].min, Sliders[w].value, Sliders[w].max}

Defaults == [w \in WidgetNames |-> Sliders[w].value]

population_size == sidebar.population_size
generations == sidebar.generations

-----------------------------------------------------------------------------
(* The figure blocks (app.py 50-128).  Each takes the generator state g and *)
(* the sidebar values sb, and gives the artists it plots, the generator     *)
(* calls it makes and the generator state it leaves.                        *)

\* Mutant of Fig8Block: the population is scaled by the number of pairs.
Fig8Block_per_pair(g, sb) ==
    LET num == sb.population_size * sb.n_pairs
        r1 == random_constellations(g, num, 1)
        r2 == random_constellations(r1.rng, num, 3)
        r3 == random_constellations(r2.rng, num, sb.generations)
        c1 == Call("random_constellations", <<num, 1>>, g, r1)
        c2 == Call("random_constellations", <<num, 3>>, r1.rng, r2)
        c3 == Call("random_constellations", <<num, sb.generations>>, r2.rng, r3)
        scatter(gen, r) == [kind |-> "scatter", label |-> gen, x |-> r.Jso, y |-> r.Jto]
    IN  IF r1.raised
        THEN [raised |-> TRUE, artists |-> <<>>, calls |-> <<c1>>, rng |-> g]
        ELSE [raised |-> FALSE,
              artists |-> <<scatter(1, r1), scatter(3, r2), scatter(sb.generations, r3)>>,
              calls |-> <<c1, c2, c3>>,
              rng |-> r3.rng]

\* FIG 8: for gen in [1, 3, generations]: random_constellations, ax8.scatter
Fig8Block(g, sb) ==
    LET num == sb.population_size
        r1 == random_constellations(g, num, 1)
        r2 == random_constellations(r1.rng, num, 3)
        r3 == random_constellations(r2.rng, num, sb.generations)
        c1 == Call("random_constellations", <<num, 1>>, g, r1)
        c2 == Call("random_constellations", <<num, 3>>, r1.rng, r2)
        c3 == Call("random_constellations", <<num, sb.generations>>, r2.rng, r3)
        scatter(gen, r) == [kind |-> "scatter", label |-> gen, x |-> r.Jso, y |-> r.Jto]
    IN  IF r1.raised
        THEN [raised |-> TRUE, artists |-> <<>>, calls |-> <<c1>>, rng |-> g]
        ELSE [raised |-> FALSE,
              artists |-> <<scatter(1, r1), scatter(3, r2), scatter(sb.generations, r3)>>,
              calls |-> <<c1, c2, c3>>,
              rng |-> r3.rng]

\* np.linspace(0.02, 0.3, 50)[i-1] in fixed point.
Linspace(i) == (2 * Scale) \div 100 + (((28 * Scale) \div 100) * (i - 1)) \div 49

Paretos == <<1, 10, 48, 98>>

\* FIG 9: for pareto in [1, 10, 48, 98]: y = 0.3 - x + rand(50) * 0.05 / pareto
Fig9Block(g, sb) ==
    LET y(k, i) == (3 * Scale) \div 10 - Linspace(i)
                   + ((Rand(Advance(g, 50 * (k - 1) + i - 1)) * 5) \div 100) \div Paretos[k]
        line(k) == [kind |-> "line", label |-> Paretos[k],
                    x |-> [i \in 1..50 |-> Linspace(i)],
                    y |-> [i \in 1..50 |-> y(k, i)]]
    IN  [raised |-> FALSE,
         artists |-> [k \in 1..4 |-> line(k)],
         calls |-> <<>>,
         rng |-> Advance(g, 200)]

Curves == <<1, 10, 48>>

\* np.log10(curve) * 0.1 for the three curves, in ten-thousandths.
Log10Tenth(curve) == CASE curve = 1 -> 0 [] curve = 10 -> 1000 [] curve = 48 -> 1681

\* FIG 10: truth, est = geoid_error(60); noise = est * (1 + log10(curve) * 0.1).
\* The noise curves' values are rationals counting ten-thousandths.
Fig10Block(g, sb) ==
    LET r == geoid_error(g, 60)
        n == [i \in 1..60 |-> i]
        noise(k) == [i \in 1..60 |->
                       <<r.error[i][1] * (10000 + Log10Tenth(Curves[k])), r.error[i][2]>>]
    IN  [raised |-> FALSE,
         artists |-> <<[kind |-> "line", label |-> "truth", x |-> n, y |-> r.signal]>>
                     \o [k \in 1..3 |->
                           [kind |-> "line", label |-> Curves[k], x |-> n, y |-> noise(k)]],
         calls |-> <<Call("geoid_error", <<60>>, g, r)>>,
         rng |-> r.rng]

\* FIG 11: constellations = np.random.rand(10, 2), drawn row by row.
Fig11Block(g, sb) ==
    LET c(i, j) == Rand(Advance(g, 2 * (i - 1) + (j - 1)))
    IN  [raised |-> FALSE,
         artists |-> <<[kind |-> "scatter", label |-> "",
                        x |-> [i \in 1..10 |-> c(i, 1)],
                        y |-> [i \in 1..10 |-> c(i, 2)]]>>
                     \o [i \in 1..10 |->
                           [kind |-> "text", label |-> i, x |-> c(i, 1), y |-> c(i, 2)]],
         calls |-> <<>>,
         rng |-> Advance(g, 20)]

\* np.random.rand(len) * 1e-4 drawn from state g, as rationals.
RandTimes1em4(g, len) == [d \in 1..len |-> <<Rand(Advance(g, d - 1)), Scale * 10000>>]

\* FIG 12 and FIG 14: for i in range(1, 11): plot(arange(1, 61), rand(60) * 1e-4)
TenCurvesBlock(g, sb) ==
    [raised |-> FALSE,
     artists |-> [i \in 1..10 |->
                    [kind |-> "line", label |-> i, x |-> [d \in 1..60 |-> d],
                     y |-> RandTimes1em4(Advance(g, 60 * (i - 1)), 60)]],
     calls |-> <<>>,
     rng |-> Advance(g, 600)]

\* FIG 13: ax13.plot(days, np.random.rand(30) * 1e-4)
Fig13Block(g, sb) ==
    [raised |-> FALSE,
     artists |-> <<[kind |-> "line", label |-> "", x |-> [d \in 1..30 |-> d],
                    y |-> RandTimes1em4(g, 30)]>>,
     calls |-> <<>>,
     rng |-> Advance(g, 30)]

\* The figures in script order.
FigureOrder == <<8, 9, 10, 11, 12, 13, 14>>

Block(f, g, sb) ==
    CASE f = 8  -> Fig8Block(g, sb)
      [] f = 9  -> Fig9Block(g, sb)
      [] f = 10 -> Fig10Block(g, sb)
      [] f = 11 -> Fig11Block(g, sb)
      [] f = 12 -> TenCurvesBlock(g, sb)
      [] f = 13 -> Fig13Block(g, sb)
      [] f = 14 -> TenCurvesBlock(g, sb)

-----------------------------------------------------------------------------
(* Script executions *)

At(at, fig) == [at |-> at, fig |-> fig]

\* The function harness is not running.
NoArgs == [num |-> 0, gen |-> 0, n |-> 0]

\* What a new script execution starts from: nothing shown, nothing plotted.
FreshPage ==
    /\ figs' = <<>>
    /\ rendered' = <<>>
    /\ messages' = <<>>
    /\ calls' = <<>>
    /\ drawnFrom' = <<>>

\* Process start and first page load: widgets at their defaults, button not
\* pressed, generator seeded from the operating system's entropy.
Init ==
    /\ sidebar = Defaults
    /\ run_sim = FALSE
    /\ rng \in {Seed(e) : e \in EntropySeeds}
    /\ pc = At("if", 0)
    /\ figs = <<>>
    /\ rendered = <<>>
    /\ messages = <<>>
    /\ calls = <<>>
    /\ drawnFrom = <<>>
    /\ execs = 1
    /\ args = NoArgs

\* if run_sim: st.success("Simulation running...")
RunBranch ==
    /\ pc = At("if", 0)
    /\ run_sim
    /\ messages' = Append(messages, "success")
    /\ pc' = At("plot", 8)
    /\ UNCHANGED <<sidebar, run_sim, rng, figs, rendered, calls, drawnFrom, execs, args>>

\* Mutant of ElseBranch: the idle page draws from the generator.
ElseBranch_draws ==
    /\ pc = At("if", 0)
    /\ ~run_sim
    /\ messages' = Append(messages, "warning")
    /\ pc' = At("done", 0)
    /\ rng' = Advance(rng, 1)
    /\ UNCHANGED <<sidebar, run_sim, figs, rendered, calls, drawnFrom, execs, args>>

\* else: st.warning(...)
ElseBranch ==
    /\ pc = At("if", 0)
    /\ ~run_sim
    /\ messages' = Append(messages, "warning")
    /\ pc' = At("done", 0)
    /\ UNCHANGED <<sidebar, run_sim, rng, figs, rendered, calls, drawnFrom, execs, args>>

\* A figure block up to its st.pyplot call: plt.subplots(), the generator
\* calls and the plotting calls.  An exception ends the script execution.
Plot(f) ==
    /\ pc = At("plot", f)
    /\ LET b == Block(f, rng, sidebar)
       IN  /\ rng' = b.rng
           /\ calls' = calls \o b.calls
           /\ figs' = (f :> b.artists) @@ figs
           /\ pc' = IF b.raised THEN At("error", f) ELSE At("show", f)
    /\ drawnFrom' = (f :> rng) @@ drawnFrom
    /\ UNCHANGED <<sidebar, run_sim, rendered, messages, execs, args>>

\* Mutant of Show: the chart is handed to st.pyplot twice.
Show_twice(f) ==
    /\ pc = At("show", f)
    /\ rendered' = rendered \o <<[fig |-> f, artists |-> figs[f]],
                                 [fig |-> f, artists |-> figs[f]]>>
    /\ pc' = IF f = 14 THEN At("done", 0) ELSE At("plot", f + 1)
    /\ UNCHANGED <<sidebar, run_sim, rng, figs, messages, calls, drawnFrom, execs, args>>

\* st.pyplot(fig): the chart shows what has been plotted on the figure.
Show(f) ==
    /\ pc = At("show", f)
    /\ rendered' = Append(rendered, [fig |-> f, artists |-> figs[f]])
    /\ pc' = IF f = 14 THEN At("done", 0) ELSE At("plot", f + 1)
    /\ UNCHANGED <<sidebar, run_sim, rng, figs, messages, calls, drawnFrom, execs, args>>

Finished == pc.at \in {"done", "error"}

\* The user moves one widget: the script is executed again, button not pressed.
ChangeWidget ==
    /\ Finished
    /\ execs < MaxExecs
    /\ \E w \in WidgetNames : \E v \in Choices(w) \ {sidebar[w]} :
          sidebar' = [sidebar EXCEPT ![w] = v]
    /\ run_sim' = FALSE
    /\ pc' = At("if", 0)
    /\ execs' = execs + 1
    /\ FreshPage
    /\ UNCHANGED <<rng, args>>

\* The user presses Run Simulation: the script is executed again.
ClickRun ==
    /\ Finished
    /\ execs < MaxExecs
    /\ run_sim' = TRUE
    /\ pc' = At("if", 0)
    /\ execs' = execs + 1
    /\ FreshPage
    /\ UNCHANGED <<sidebar, rng, args>>

Next ==
    \/ RunBranch
    \/ ElseBranch
    \/ \E f \in 8..14 : Plot(f)
    \/ \E f \in 8..14 : Show(f)
    \/ ChangeWidget
    \/ ClickRun

Spec == Init /\ [][Next]_vars

-----------------------------------------------------------------------------
(* Function harness: the two helpers called directly, with arguments and a  *)
(* generator state drawn from bounded sets.                                 *)

Counts == (1 .. MaxCount) \cup {Sliders.population_size.value}
Gens == (1 .. MaxGen) \cup {Sliders.generations.value}
Ns == (1 .. MaxN) \cup {60}

\* Generator states a call may find: any stream, some draws already made.
HarnessStates ==
    {[seed |-> k, pos |-> p] : k \in EntropySeeds \cup {42}, p \in 0 .. MaxPos}

HarnessInit ==
    /\ sidebar = Defaults
    /\ run_sim = FALSE
    /\ rng \in HarnessStates
    /\ pc = At("harness", 0)
    /\ figs = <<>>
    /\ rendered = <<>>
    /\ messages = <<>>
    /\ calls = <<>>
    /\ drawnFrom = <<>>
    /\ execs = 0
    /\ args \in [num : Counts, gen : Gens, n : Ns]

\* Jso, Jto = random_constellations(num, gen)
HarnessRandomConstellations ==
    /\ pc = At("harness", 0)
    /\ Len(calls) < MaxCalls
    /\ LET r == random_constellations(rng, args.num, args.gen)
       IN  /\ calls' = Append(calls,
                 Call("random_constellations", <<args.num, args.gen>>, rng, r))
           /\ rng' = r.rng
    /\ UNCHANGED <<sidebar, run_sim, pc, figs, rendered, messages, drawnFrom,
                   execs, args>>

\* truth, est = geoid_error(n)
HarnessGeoidError ==
    /\ pc = At("harness", 0)
    /\ Len(calls) < MaxCalls
    /\ LET r == geoid_error(rng, args.n)
       IN  /\ calls' = Append(calls, Call("geoid_error", <<args.n>>, rng, r))
           /\ rng' = r.rng
    /\ UNCHANGED <<sidebar, run_sim, pc, figs, rendered, messages, drawnFrom,
                   execs, args>>

HarnessNext == HarnessRandomConstellations \/ HarnessGeoidError

FnSpec == HarnessInit /\ [][HarnessNext]_vars

-----------------------------------------------------------------------------
(* Properties *)

CallsOf(fn) == {k \in 1..Len(calls) : calls[k].fn = fn}

\* a < b for rationals with positive denominators.
RLess(a, b) == a[1] * b[2] < b[1] * a[2]

\* 1 / sqrt(gen) in fixed point: the width of the interval of the values.
Width(gen) == FxDiv(Scale, SqrtFx(gen))

\* C1: random_constellations(count, generationIndex) returns two sequences of
\* length count, and every value v of both satisfies
\* 0.02 <= v <= 1/sqrt(generationIndex) + 0.02.
C1_ValuesInRange ==
    \A k \in CallsOf("random_constellations") :
        LET num == calls[k].args[1]
            gen == calls[k].args[2]
            r == calls[k].result
            hi == FxAdd(Width(gen), Offset)
        IN  /\ ~r.raised
            /\ Len(r.Jso) = num
            /\ Len(r.Jto) = num
            /\ \A i \in 1..num :
                  /\ Offset <= r.Jso[i] /\ r.Jso[i] <= hi
                  /\ Offset <= r.Jto[i] /\ r.Jto[i] <= hi

\* C1's case: a call with count = 100 and generationIndex = 20 that returned
\* values strictly inside the interval and different from each other.
C1_Witness ==
    \E k \in CallsOf("random_constellations") :
        /\ calls[k].args = <<100, 20>>
        /\ Len(calls[k].result.Jso) = 100
        /\ \E i, j \in 1..100 : calls[k].result.Jso[i] < calls[k].result.Jto[j]
        /\ \E i \in 1..100 : calls[k].result.Jso[i] > Offset

\* C2: geoid_error(n) returns two sequences of length n with
\* truth[i] = 1e-4 / (i+1)^2 (0-based i), so truth is strictly decreasing; for
\* n = 60, truth[0] = 1e-4 and truth[59] = 1e-4 / 3600.
C2_TruthCurve ==
    \A k \in CallsOf("geoid_error") :
        LET n == calls[k].args[1]
            truth == calls[k].result.signal
            est == calls[k].result.error
        IN  /\ Len(truth) = n
            /\ Len(est) = n
            /\ \A i \in 1..n : truth[i] = <<1, 10000 * i * i>>
            /\ \A i \in 1..(n - 1) : RLess(truth[i + 1], truth[i])
            /\ n = 60 => truth[1] = <<1, 10000>> /\ truth[60] = <<1, 36000000>>

\* C2's case: geoid_error(60) has been called.
C2_Witness ==
    \E k \in CallsOf("geoid_error") :
        calls[k].args = <<60>> /\ Len(calls[k].result.signal) = 60

\* C3: any two invocations of geoid_error with the same n return identical
\* (truth, estimate) sequences, whatever the generator's state before each.
C3_GeoidErrorDeterministic ==
    \A j, k \in CallsOf("geoid_error") :
        calls[j].args = calls[k].args =>
            /\ calls[j].result.signal = calls[k].result.signal
            /\ calls[j].result.error = calls[k].result.error

\* C3's case: geoid_error called twice from different generator states, with
\* draws by random_constellations in between.
C3_Witness ==
    /\ Len(calls) = 3
    /\ calls[1].fn = "geoid_error"
    /\ calls[2].fn = "random_constellations"
    /\ calls[3].fn = "geoid_error"
    /\ calls[1].before.seed # 42
    /\ calls[3].before # calls[1].before
    /\ \E i \in 1..Len(calls[1].result.error) :
          calls[1].result.error[i][1] # 5

\* The generation indexes above g1 at which C7 replays a call: the next one,
\* the default and the largest the sidebar allows.
C7_Later(g1) ==
    {g2 \in {g1 + 1, Sliders.generations.value, Sliders.generations.max} : g2 > g1}

\* Width(g) for every generation index the sidebar allows.
C7_Widths == [g \in 1 .. Sliders.generations.max |-> Width(g)]

\* C7: for g1 < g2 the width 1/sqrt(g) of the interval bounding
\* random_constellations' values is strictly smaller for g2, and the values a
\* call with g2 returns lie in the interval of g1, whose lower end is also 0.02.
C7_SpreadShrinks ==
    \A k \in CallsOf("random_constellations") : \A c \in {calls[k]} :
        LET num == c.args[1]
            g1 == c.args[2]
        IN  /\ \A g2 \in (g1 + 1) .. Sliders.generations.max :
                  C7_Widths[g2] < C7_Widths[g1]
            /\ \A g2 \in C7_Later(g1) :
                 \A r2 \in {random_constellations(c.before, num, g2)} :
                 \A hi \in {FxAdd(C7_Widths[g1], Offset)} :
                    \A i \in 1..num :
                        /\ Offset <= r2.Jso[i]
                        /\ r2.Jso[i] <= hi
                        /\ r2.Jso[i] <= c.result.Jso[i]
                        /\ Offset <= r2.Jto[i]
                        /\ r2.Jto[i] <= hi
                        /\ r2.Jto[i] <= c.result.Jto[i]

\* C7's case: a call with generation index 1 and one with index 20, whose
\* values a larger index shrinks.
C7_Witness ==
    \E k \in CallsOf("random_constellations") :
        /\ calls[k].args[2] = 1
        /\ \E i \in 1..calls[k].args[1] :
              random_constellations(calls[k].before, calls[k].args[1], 20).Jso[i]
                  < calls[k].result.Jso[i]

-----------------------------------------------------------------------------
(* Properties of the script executions *)

Plotted == DOMAIN drawnFrom

RunDone == pc.at = "done" /\ run_sim

\* C4: every run draws all series afresh, and Figure 10 is the only figure
\* whose series come from the fixed seed: the generator state from which any
\* other figure (8, 9, 11, 12, 13, 14) is drawn is not a state of the stream
\* seeded with 42.
C4_OnlyFigure10Seeded ==
    \A f \in Plotted \ {10} : drawnFrom[f].seed # 42

\* The number of artists each figure's block plots.
C5_Artists(f) ==
    CASE f = 8 -> 3 [] f = 9 -> 4 [] f = 10 -> 4 [] f = 11 -> 11
      [] f = 12 -> 10 [] f = 13 -> 1 [] f = 14 -> 10

\* C5: a triggered run renders exactly seven charts, each once, in the order
\* Figure 8, 9, 10, 11, 12, 13, 14, and no chart is rendered before the series
\* it displays have been generated.
C5_SevenChartsInOrder ==
    /\ Len(rendered) <= Len(FigureOrder)
    /\ \A k \in 1..Len(rendered) :
          /\ rendered[k].fig = FigureOrder[k]
          /\ rendered[k].fig \in DOMAIN figs
          /\ rendered[k].artists = figs[rendered[k].fig]
          /\ Len(rendered[k].artists) = C5_Artists(rendered[k].fig)
    /\ pc.at \in {"plot", "show"} => Len(rendered) = pc.fig - 8
    /\ RunDone => Len(rendered) = 7
    /\ ~run_sim => rendered = <<>>

\* C5's case: a run with a changed parameter has finished and shown its charts.
C5_Witness ==
    /\ RunDone
    /\ sidebar # Defaults
    /\ Len(rendered) = 7
    /\ rendered[7].fig = 14

\* C6: whatever the sidebar can produce (population_size in 10..200,
\* generations in 5..50), every random_constellations call has num >= 1 and
\* gen in {1, 3, generations} with gen >= 1, geoid_error is called with
\* n = 60, and no run reaches an error state.
C6_GeneratorArgumentsValid ==
    /\ \A w \in WidgetNames : Sliders[w].min <= sidebar[w] /\ sidebar[w] <= Sliders[w].max
    /\ population_size \in 10..200
    /\ generations \in 5..50
    /\ \A k \in CallsOf("random_constellations") :
          /\ calls[k].args[1] >= 1
          /\ calls[k].args[2] \in {1, 3, generations}
          /\ calls[k].args[2] >= 1
          /\ ~calls[k].result.raised
          /\ \A i \in 1..calls[k].args[1] : calls[k].result.Jso[i] < Inf
    /\ \A k \in CallsOf("geoid_error") : calls[k].args = <<60>>
    /\ pc.at # "error"

\* C6's case: a finished run with the population slider at its minimum.
C6_Witness ==
    /\ RunDone
    /\ population_size = 10
    /\ Len(calls) = 4
    /\ calls[3].args = <<10, generations>>

\* Draws made between np.random.seed(42) and the start of Figure f's block.
C8_DrawsSinceSeed(f) ==
    CASE f = 11 -> 60 [] f = 12 -> 80 [] f = 13 -> 680 [] f = 14 -> 710

\* C8: random_constellations(num, gen) only advances the generator by 2*num
\* draws and never reseeds it; geoid_error(n) leaves it at seed 42 advanced by
\* n draws whatever it was before; so Figures 11-14 are drawn from states that
\* do not depend on the draws made for Figures 8-9.
C8_GeneratorEffects ==
    /\ \A k \in CallsOf("random_constellations") :
          calls[k].result.rng =
              [seed |-> calls[k].before.seed,
               pos |-> calls[k].before.pos + 2 * calls[k].args[1]]
    /\ \A k \in CallsOf("geoid_error") :
          calls[k].result.rng = [seed |-> 42, pos |-> calls[k].args[1]]
    /\ \A f \in Plotted \cap 11..14 :
          drawnFrom[f] = [seed |-> 42, pos |-> C8_DrawsSinceSeed(f)]

\* C8's case: a finished first run, whose Figures 8 and 9 consumed the
\* start-up stream, with a population other than the default.
C8_Witness ==
    /\ RunDone
    /\ population_size # Sliders.population_size.value
    /\ drawnFrom[8].seed \in EntropySeeds
    /\ drawnFrom[9].pos = 6 * population_size
    /\ 14 \in Plotted

\* The charts of a run that starts Figure FigureOrder[k] in generator state g
\* with sidebar values sb.
RECURSIVE C9_Replay(_, _, _)
C9_Replay(k, g, sb) ==
    IF k > Len(FigureOrder) THEN <<>>
    ELSE LET b == Block(FigureOrder[k], g, sb)
         IN  <<[fig |-> FigureOrder[k], artists |-> b.artists]>>
             \o C9_Replay(k + 1, b.rng, sb)

\* The parameters no figure reads.
C9_Unused == WidgetNames \ {"population_size", "generations"}

\* Sidebars equal to sb in population_size and generations, with the other
\* eight widgets all at their minimum, all at their default or all at their
\* maximum.
C9_Variants(sb) ==
    {[w \in WidgetNames |-> IF w \in C9_Unused THEN Sliders[w].min ELSE sb[w]],
     [w \in WidgetNames |-> IF w \in C9_Unused THEN Sliders[w].value ELSE sb[w]],
     [w \in WidgetNames |-> IF w \in C9_Unused THEN Sliders[w].max ELSE sb[w]]}

C9_SameCharts ==
    RunDone => \A sb \in C9_Variants(sidebar) : C9_Replay(1, drawnFrom[8], sb) = rendered

\* C9: of the ten parameters only population_size and generations influence a
\* run: a run from the same generator state with the same two values and any
\* other values of the remaining eight produces the same series for all seven
\* figures; and no parameter is modified during a run.
C9_OnlyPopulationAndGenerations ==
    /\ []C9_SameCharts
    /\ [][~Finished => sidebar' = sidebar]_vars

\* C9's case: a finished run in which an unused parameter is off its default.
C9_Witness ==
    /\ RunDone
    /\ Len(rendered) = 7
    /\ \E w \in C9_Unused : sidebar[w] # Sliders[w].value

\* C10: a script execution in which the run action is not triggered calls no
\* generator, renders no chart and leaves the generator unchanged; only the
\* prompt to click Run Simulation is shown.
C10_IdleExecution ==
    [][(pc.at = "if" /\ ~run_sim) =>
          /\ rng' = rng
          /\ calls = <<>> /\ calls' = <<>>
          /\ rendered = <<>> /\ rendered' = <<>>
          /\ figs' = <<>>
          /\ messages = <<>> /\ messages' = <<"warning">>
          /\ pc'.at = "done"]_vars

\* C10's case: an idle execution finished after an earlier run had advanced
\* the generator.
C10_Witness ==
    /\ pc.at = "done"
    /\ ~run_sim
    /\ rng.pos > 0
    /\ messages = <<"warning">>

=============================================================================
